---- MODULE Spec2Model ----
(***************************************************************************)
(* TradeLockerFeed (src/tradelocker_feed.py): the data feed that preloads  *)
(* a historical table and then polls for live bars, as a state machine;    *)
(* and EmaCrossStrategy (src/momentum_bot.py), the strategy that trades    *)
(* the crossovers of two moving averages, with the broker that fills its   *)
(* orders; and run_live_trading, which connects the API, builds the feeds  *)
(* and runs the strategy.                                                  *)
(*                                                                         *)
(* Time.  A datetime is [day, sec]: day is the day number counted from     *)
(* 1970-01-01 (a Thursday), sec the second of that day.  Prices and        *)
(* volumes are integers in units of 0.001.                                 *)
(***************************************************************************)
EXTENDS Integers, Sequences, FiniteSets, TLC

VARIABLES
    p,              \* the feed's params (self.p), fixed at construction
    api_connected,  \* self.api.is_connected
    api_connects,   \* what self.api.connect() returns (TradeLockerAPI: true)
    phase,          \* "new" before __init__, "constructed" until start() has
                    \* run, then "started"; "init_raised" and "start_raised"
                    \* when __init__ or start() raised
    hist_data,      \* self.hist_data: None or the Historical Table
    hist_loaded,    \* self.hist_loaded
    live_buffer,    \* self.live_buffer
    last_bar_time,  \* self.last_bar_time: None or a datetime
    last_bar,       \* self.last_bar: None or the last live bar fetched
    _idx,           \* self._idx, the cursor (None before start() sets it)
    lines,          \* self.lines.<field>[0]: the current-bar record
    ret,            \* the last call: its name, its return value, what it raised
    poll,           \* the last call's _fetch_live_bar: whether it ran, the bar
                    \* it returned and the clock reading the bar was made from
    calls,          \* number of next() calls made since start()
    loads,          \* number of load_next() and _load_bar() calls since start()
    order,          \* EmaCrossStrategy.order: NoOrder or <<i>>, the i-th order
    orders,         \* the broker's orders, in the order they were submitted
    position,       \* the broker's position size (self.position.size)
    crossover,      \* self.crossover[0] at the last bar the strategy saw
    trend,          \* the last crossover that was not 0 (0 before the first)
    bars,           \* number of calls of EmaCrossStrategy.next() made
    buys_since_close, \* buy orders issued since a position was last closed
    args,           \* the arguments of run_live_trading
    run             \* the call of run_live_trading: where it is (pc), the
                    \* exception in flight (exc) and the one caught, the feeds
                    \* created, whether cerebro.run() was called, the calls of
                    \* disconnect(), and what connect() returned

feed_vars == <<p, api_connected, api_connects, phase, hist_data, hist_loaded, live_buffer,
               last_bar_time, last_bar, _idx, lines, ret, poll, calls, loads>>

strategy_vars ==
    <<order, orders, position, crossover, trend, bars, buys_since_close>>

run_vars == <<args, run>>

vars == <<p, api_connected, api_connects, phase, hist_data, hist_loaded,
          live_buffer, last_bar_time, last_bar, _idx, lines, ret, poll, calls,
          loads, order, orders, position, crossover, trend, bars,
          buys_since_close, args, run>>

(***************************************************************************)
(* Bounds of the model.                                                    *)
(***************************************************************************)
\* the wall clock ranges over the days 0..MaxDay (Thursday, Friday, Saturday)
MaxDay == 2
\* at most MaxCalls calls of next(), load_next() and _load_bar() are made
\* on one feed
MaxCalls == 3
\* run_live_trading is given at most MaxSymbols symbols
MaxSymbols == 2
\* the strategy sees at most MaxBars bars
MaxBars == 3
\* the size of every order (the sizer's stake), in lots
Stake == 2

(***************************************************************************)
(* Python values.                                                          *)
(***************************************************************************)
None == [none |-> TRUE]
NaN == <<>>
NoExc == ""
\* a session string that is not given: None (falsy, as '' is)
NoString == <<>>
\* self.order = None: no order is tracked
NoOrder == <<>>

Max(a, b) == IF a >= b THEN a ELSE b
Min(a, b) == IF a <= b THEN a ELSE b

\* datetime comparison a <= b
DtLE(a, b) == a.day < b.day \/ (a.day = b.day /\ a.sec <= b.sec)
\* datetime comparison a < b
DtLT(a, b) == a.day < b.day \/ (a.day = b.day /\ a.sec < b.sec)

\* datetime.weekday(): Monday is 0; day 0 is a Thursday
weekday(dt) == (dt.day + 3) % 7

\* dt + datetime.timedelta(days = n)
AddDays(dt, n) == [day |-> dt.day + n, sec |-> dt.sec]

\* dt.replace(hour = h, minute = m, second = 0, microsecond = 0)
ReplaceHM(dt, h, m) == [day |-> dt.day, sec |-> h * 3600 + m * 60]

\* bt.date2num(dt): the day number plus the fraction of the day elapsed,
\* here in units of 1/86400 day
date2num(dt) == dt.day * 86400 + dt.sec

\* the value of a decimal digit character
DigitVal(c) ==
    CASE c = "0" -> 0 [] c = "1" -> 1 [] c = "2" -> 2 [] c = "3" -> 3
      [] c = "4" -> 4 [] c = "5" -> 5 [] c = "6" -> 6 [] c = "7" -> 7
      [] c = "8" -> 8 [] c = "9" -> 9

\* int(s) of a string of digits, given as the sequence of its characters
RECURSIVE ParseInt(_)
ParseInt(s) ==
    IF s = <<>> THEN 0
    ELSE 10 * ParseInt(SubSeq(s, 1, Len(s) - 1)) + DigitVal(s[Len(s)])

\* datetime.datetime.strptime(s, '%H:%M').time(), as the second of the day
ParseHM(s) ==
    ParseInt(SubSeq(s, 1, 2)) * 3600 + ParseInt(SubSeq(s, 4, 5)) * 60

\* self.intraday, set in __init__ from the timeframe's last character
intraday(tf) == tf[Len(tf)] \notin {"d", "w", "m"}

\* int(self.p.timeframe[:-1])
timeframe_minutes(tf) == ParseInt(SubSeq(tf, 1, Len(tf) - 1))

(***************************************************************************)
(* The feed object.  The methods below are operators on the record of the  *)
(* feed's attributes; each returns the attributes after the call with the  *)
(* value returned (out), the exception raised (exc), and whether the call   *)
(* ran _fetch_live_bar, with the bar it returned and the clock reading     *)
(* that bar was made from.                                                 *)
(***************************************************************************)
NoPoll == [polled |-> FALSE, now |-> None, emitted |-> None]

Result(s, out, exc, pl) == [self |-> s, out |-> out, exc |-> exc, poll |-> pl]

Bar(dt, o, h, l, c, v, oi) ==
    [datetime |-> dt, open |-> o, high |-> h, low |-> l, close |-> c,
     volume |-> v, openinterest |-> oi]

\* the minutes 09:30, 09:30 + step, ... below 16:00 (the inner while loop)
RECURSIVE session_minutes(_, _)
session_minutes(minutes, step) ==
    IF minutes < 16 * 60
    THEN <<minutes>> \o session_minutes(minutes + step, step)
    ELSE <<>>

\* the bar times of one day of the date loop
day_dates(current_date, tf) ==
    IF intraday(tf)
    THEN IF weekday(current_date) < 5
         THEN LET ms == session_minutes(9 * 60 + 30, timeframe_minutes(tf))
              IN  [i \in 1..Len(ms) |->
                       ReplaceHM(current_date, ms[i] \div 60, ms[i] % 60)]
         ELSE <<>>
    ELSE IF weekday(current_date) < 5 THEN <<current_date>> ELSE <<>>

\* the outer while loop: the bar times from current_date to end_date
RECURSIVE hist_dates(_, _, _)
hist_dates(current_date, end_date, tf) ==
    IF DtLE(current_date, end_date)
    THEN day_dates(current_date, tf)
             \o hist_dates(AddDays(current_date, 1), end_date, tf)
    ELSE <<>>

\* the generated prices: row i of a table drawn with the random terms z
\* (z.dclose: the step of the close's random walk, z.dopen, z.dhigh, z.dlow:
\* the terms subtracted or added for open, high and low, z.volume)
hist_row(dt, i, z) ==
    LET close_price == 100000 + i * z.dclose
        open_price == close_price - z.dopen
    IN  Bar(dt, open_price,
            Max(close_price, open_price) + z.dhigh,
            Min(close_price, open_price) - z.dlow,
            close_price, z.volume, 0)

\* pd.DataFrame: the table of its rows
DataFrame(rows) == [rows |-> rows]

\* the requested range: fromdate or 30 days before now, todate or now
start_date(pp, now) == IF pp.fromdate # None THEN pp.fromdate ELSE AddDays(now, -30)
end_date(pp, now) == IF pp.todate # None THEN pp.todate ELSE now

\* build_table without the assignment to last_bar_time
build_table_keeps_time(s, dates, z) ==
    IF Len(dates) = 0
    THEN [s EXCEPT !.hist_data = DataFrame(<<>>), !.hist_loaded = TRUE]
    ELSE [s EXCEPT !.hist_data =
                       DataFrame([i \in 1..Len(dates) |-> hist_row(dates[i], i, z)]),
                   !.hist_loaded = TRUE]

\* build_table leaving the feed as it is when there are no dates
build_table_skips_empty(s, dates, z) ==
    IF Len(dates) = 0
    THEN s
    ELSE [s EXCEPT !.hist_data =
                       DataFrame([i \in 1..Len(dates) |-> hist_row(dates[i], i, z)]),
                   !.last_bar_time = dates[Len(dates)],
                   !.hist_loaded = TRUE]

\* _load_historical_data once the list `dates` is built
build_table(s, dates, z) ==
    IF Len(dates) = 0
    THEN [s EXCEPT !.hist_data = DataFrame(<<>>), !.hist_loaded = TRUE]
    ELSE [s EXCEPT !.hist_data =
                       DataFrame([i \in 1..Len(dates) |-> hist_row(dates[i], i, z)]),
                   !.last_bar_time = dates[Len(dates)],
                   !.hist_loaded = TRUE]

\* TradeLockerFeed._load_historical_data, reading the clock `now` and
\* drawing the random terms z
_load_historical_data(s, pp, now, z) ==
    build_table(s, hist_dates(start_date(pp, now), end_date(pp, now), pp.timeframe), z)

\* is_trading_hours with the test against the session's end left out
is_trading_hours_no_end(pp, now) ==
    IF pp.sessionstart # NoString /\ pp.sessionend # NoString
    THEN ParseHM(pp.sessionstart) <= now.sec
    ELSE TRUE

\* the session gate of _fetch_live_bar: is_trading_hours
is_trading_hours(pp, now) ==
    IF pp.sessionstart # NoString /\ pp.sessionend # NoString
    THEN LET session_start == ParseHM(pp.sessionstart)
             session_end == ParseHM(pp.sessionend)
             current_time == now.sec
         IN  session_start <= current_time /\ current_time <= session_end
    ELSE TRUE

\* the weekday gate of _fetch_live_bar: is_weekday
is_weekday(now) == weekday(now) < 5

\* the candidate bar's datetime: the clock rounded down to the timeframe
live_bar_time(pp, now) ==
    IF intraday(pp.timeframe)
    THEN LET minutes_timeframe == timeframe_minutes(pp.timeframe)
             total_minutes == (now.sec \div 3600) * 60 + (now.sec % 3600) \div 60
             bar_minutes == (total_minutes \div minutes_timeframe) * minutes_timeframe
         IN  ReplaceHM(now, bar_minutes \div 60, bar_minutes % 60)
    ELSE ReplaceHM(now, 0, 0)

\* is_duplicate with < in place of <=
is_duplicate_strict(s, bar_time) ==
    s.last_bar_time # None /\ DtLT(bar_time, s.last_bar_time)

\* "Don't generate duplicate bars": the test that suppresses the candidate
is_duplicate(s, bar_time) ==
    s.last_bar_time # None /\ DtLE(bar_time, s.last_bar_time)

\* the simulated prices of a live bar; tt is time.time() in milliseconds
live_bar(s, bar_time, tt) ==
    IF s.last_bar # None
    THEN LET last_close == s.last_bar.close
             open_price == last_close
             close_price == last_close + (last_close * (500 - (tt % 2000))) \div 1000000
         IN  Bar(bar_time, open_price, Max(open_price, close_price) + 1,
                 Min(open_price, close_price) - 1, close_price,
                 1000000 + (tt % 1000000), 0)
    ELSE Bar(bar_time, 99950, 100050, 99900, 100000, 1000000 + (tt % 1000000), 0)

\* no_bar forgetting the last-known timestamp
no_bar_forgets(s) ==
    Result([s EXCEPT !.last_bar_time = None],
           None, NoExc, [polled |-> TRUE, now |-> None, emitted |-> None])

\* _fetch_live_bar returning None: nothing is changed
no_bar(s) ==
    Result(s, None, NoExc, [polled |-> TRUE, now |-> None, emitted |-> None])

\* new_bar without the assignment to last_bar_time
new_bar_keeps_time(s, now, bar) ==
    Result([s EXCEPT !.last_bar = bar],
           bar, NoExc, [polled |-> TRUE, now |-> now, emitted |-> bar])

\* _fetch_live_bar returning the bar: last_bar and last_bar_time are set
new_bar(s, now, bar) ==
    Result([s EXCEPT !.last_bar = bar, !.last_bar_time = bar.datetime],
           bar, NoExc, [polled |-> TRUE, now |-> now, emitted |-> bar])

\* TradeLockerFeed._fetch_live_bar, reading the clocks now and tt
_fetch_live_bar(s, pp, now, tt) ==
    IF ~(is_trading_hours(pp, now) /\ is_weekday(now))
    THEN no_bar(s)
    ELSE IF is_duplicate(s, live_bar_time(pp, now))
    THEN no_bar(s)
    ELSE new_bar(s, now, live_bar(s, live_bar_time(pp, now), tt))

\* queue_bar putting the fetched bar at the front of the buffer
queue_bar_front(f) ==
    IF f.out # None
    THEN Result([f.self EXCEPT !.live_buffer = <<f.out>> \o @],
                TRUE, NoExc, f.poll)
    ELSE Result(f.self, FALSE, NoExc, f.poll)

\* _load_next_live_bar after its call f of _fetch_live_bar
queue_bar(f) ==
    IF f.out # None
    THEN Result([f.self EXCEPT !.live_buffer = Append(@, f.out)],
                TRUE, NoExc, f.poll)
    ELSE Result(f.self, FALSE, NoExc, f.poll)

\* TradeLockerFeed._load_next_live_bar
_load_next_live_bar(s, pp, now, tt) == queue_bar(_fetch_live_bar(s, pp, now, tt))

\* len(self.hist_data)
len(df) == Len(df.rows)

\* len(self.hist_data) raises TypeError while hist_data is None
len_raises(s) == s.hist_data = None

\* the end of _get_bar: "Return the next live bar if available"
pop_live(s, pl) ==
    IF s.live_buffer # <<>>
    THEN Result([s EXCEPT !.live_buffer = Tail(@)], Head(s.live_buffer), NoExc, pl)
    ELSE Result(s, None, NoExc, pl)

\* _get_bar after its call l of _load_next_live_bar on an empty buffer
after_load(l) ==
    IF ~l.out THEN Result(l.self, None, NoExc, l.poll)
    ELSE pop_live(l.self, l.poll)

\* TradeLockerFeed._get_bar
_get_bar(s, pp, now, tt) ==
    IF s._idx >= 0 /\ len_raises(s)
    THEN Result(s, None, "TypeError", NoPoll)
    ELSE IF s._idx >= 0 /\ s._idx < len(s.hist_data)
    THEN Result(s, s.hist_data.rows[s._idx + 1], NoExc, NoPoll)
    ELSE IF s.live_buffer = <<>>
    THEN after_load(_load_next_live_bar(s, pp, now, tt))
    ELSE pop_live(s, NoPoll)

\* the seven assignments of _load_bar to self.lines.<field>[0]
write_lines(bar) ==
    [datetime |-> <<date2num(bar.datetime)>>, open |-> <<bar.open>>,
     high |-> <<bar.high>>, low |-> <<bar.low>>, close |-> <<bar.close>>,
     volume |-> <<bar.volume>>, openinterest |-> <<bar.openinterest>>]

\* store_bar blanking the data lines when there is no bar
store_bar_blanks(g) ==
    IF g.exc # NoExc THEN Result(g.self, FALSE, g.exc, g.poll)
    ELSE IF g.out = None
    THEN Result([g.self EXCEPT !.lines = [f \in DOMAIN @ |-> NaN]], FALSE, NoExc, g.poll)
    ELSE Result([g.self EXCEPT !.lines = write_lines(g.out)], TRUE, NoExc, g.poll)

\* _load_bar after its call g of _get_bar
store_bar(g) ==
    IF g.exc # NoExc THEN Result(g.self, FALSE, g.exc, g.poll)
    ELSE IF g.out = None THEN Result(g.self, FALSE, NoExc, g.poll)
    ELSE Result([g.self EXCEPT !.lines = write_lines(g.out)], TRUE, NoExc, g.poll)

\* TradeLockerFeed._load_bar
_load_bar(s, pp, now, tt) == store_bar(_get_bar(s, pp, now, tt))

\* TradeLockerFeed._next_historical: the feed after it (next() drops its value)
\* TradeLockerFeed.__init__ without the test of the symbol
__init__any_symbol(pp) ==
    IF pp.api = None
    THEN Result(None, None, "ValueError", NoPoll)
    ELSE Result([hist_data |-> None, hist_loaded |-> FALSE, live_buffer |-> <<>>,
                 last_bar_time |-> None, last_bar |-> None, _idx |-> None,
                 lines |-> [datetime |-> NaN, open |-> NaN, high |-> NaN,
                            low |-> NaN, close |-> NaN, volume |-> NaN,
                            openinterest |-> NaN]],
                None, NoExc, NoPoll)

\* TradeLockerFeed.__init__ with the params pp: raises ValueError, or sets
\* the attributes (the cursor _idx is not set before start())
__init__(pp) ==
    IF pp.api = None
    THEN Result(None, None, "ValueError", NoPoll)
    ELSE IF pp.symbol = None
    THEN Result(None, None, "ValueError", NoPoll)
    ELSE Result([hist_data |-> None, hist_loaded |-> FALSE, live_buffer |-> <<>>,
                 last_bar_time |-> None, last_bar |-> None, _idx |-> None,
                 lines |-> [datetime |-> NaN, open |-> NaN, high |-> NaN,
                            low |-> NaN, close |-> NaN, volume |-> NaN,
                            openinterest |-> NaN]],
                None, NoExc, NoPoll)

\* TradeLockerAPI(api_key): not connected; its connect() returns true
TradeLockerAPI(api_key) == [is_connected |-> FALSE, connects |-> TRUE]

\* api.connect(): TradeLockerAPI.connect sets is_connected and returns it; an
\* API object whose connect() returns false is left as it is
connect(api) ==
    IF api.connects
    THEN [api |-> [api EXCEPT !.is_connected = TRUE], out |-> TRUE]
    ELSE [api |-> api, out |-> FALSE]

\* disconnect that leaves the API connected
disconnect_stays_connected(api) == api

\* TradeLockerAPI.disconnect()
disconnect(api) == [api EXCEPT !.is_connected = FALSE]

\* start(), lines 72-73: connect() is called if the API is not connected
ensure_connected(api) ==
    IF ~api.is_connected THEN connect(api) ELSE [api |-> api, out |-> TRUE]

\* connect_failed that never reports a failure
connect_failed_ignored(api) == FALSE

\* start(), lines 72-74: whether RuntimeError is raised
connect_failed(api) == ~ensure_connected(api).out

_next_historical(s) == [s EXCEPT !._idx = @ + 1]

\* TradeLockerFeed._next_live
_next_live(s, pp, now, tt) == _load_next_live_bar(s, pp, now, tt)

\* advance_to_live stepping the cursor the wrong way
advance_to_live_back(s, pp) ==
    IF ~pp.historical
    THEN [s EXCEPT !._idx = @ - 1, !.live_buffer = <<>>, !.last_bar_time = None]
    ELSE [s EXCEPT !._idx = @ - 1]

\* next() at the last historical index: "advance to live mode"
advance_to_live(s, pp) ==
    IF ~pp.historical
    THEN [s EXCEPT !._idx = @ + 1, !.live_buffer = <<>>, !.last_bar_time = None]
    ELSE [s EXCEPT !._idx = @ + 1]

\* TradeLockerFeed.next
next(s, pp, now, tt) ==
    IF s._idx >= 0 /\ len_raises(s)
    THEN Result(s, FALSE, "TypeError", NoPoll)
    ELSE IF s._idx >= 0 /\ s._idx < len(s.hist_data) - 1
    THEN Result(_next_historical(s), TRUE, NoExc, NoPoll)
    ELSE IF len_raises(s)
    THEN Result(s, FALSE, "TypeError", NoPoll)
    ELSE IF s._idx = len(s.hist_data) - 1
    THEN _next_live(advance_to_live(s, pp), pp, now, tt)
    ELSE _next_live(s, pp, now, tt)

\* TradeLockerFeed.load_next; base_next is what the framework's
\* DataBase.next() returned
load_next(s, pp, now, tt, base_next) ==
    IF ~base_next
    THEN Result(s, FALSE, NoExc, NoPoll)
    ELSE _load_bar(s, pp, now, tt)

\* TradeLockerFeed.haslivedata: bool(self.live_buffer) or
\* self._idx >= len(self.hist_data); the right operand is evaluated only
\* when the buffer is empty
haslivedata(s) ==
    IF s.live_buffer # <<>> THEN Result(s, TRUE, NoExc, NoPoll)
    ELSE IF len_raises(s) THEN Result(s, FALSE, "TypeError", NoPoll)
    ELSE Result(s, s._idx >= len(s.hist_data), NoExc, NoPoll)

\* TradeLockerFeed.start: the attributes after start() (the connection is
\* handled in the action)
start(s, pp, now, z) ==
    IF pp.historical
    THEN [_load_historical_data(s, pp, now, z) EXCEPT !._idx = -1]
    ELSE [s EXCEPT !._idx = -1]

(***************************************************************************)
(* The inputs: feed configurations, clock readings, random draws.           *)
(***************************************************************************)
\* timeframe strings, as character sequences: '1d' and '30T'
Timeframes == {<<"1", "d">>, <<"3", "0", "T">>}

\* the session strings run_live_trading passes: '09:30' and '16:00'
SessionStart == <<"0", "9", ":", "3", "0">>
SessionEnd == <<"1", "6", ":", "0", "0">>

\* fromdate: Thursday 00:00 or Friday 00:00; todate: not given, or Thursday
\* 00:00 (so the table is empty when fromdate is Friday and todate Thursday)
FromDates == {[day |-> 0, sec |-> 0], [day |-> 1, sec |-> 0]}
\* the session window: not given, or '09:30' to '16:00'
Sessions == {<<NoString, NoString>>, <<SessionStart, SessionEnd>>}
ToDates == {None, [day |-> 0, sec |-> 0]}

\* datetime.datetime.now(): any day of the range, at 09:29:59, 09:30:00,
\* 16:00:00 or 16:00:01 (the clock is not assumed to be monotonic)
ClockSecs == {34199, 34200, 57600, 57601}
Clock == {[day |-> d, sec |-> sc] : d \in 0..MaxDay, sc \in ClockSecs}

\* time.time() in milliseconds
TimeSamples == {250, 1750}

\* draws of the loader's random terms (numpy.random), in units of 0.001
RandomTerms ==
    {[dclose |-> 110, dopen |-> 50, dhigh |-> 80, dlow |-> 60, volume |-> 5000000]}

FeedParams ==
    {[historical |-> h, timeframe |-> tf, fromdate |-> fd, todate |-> td,
      sessionstart |-> ss[1], sessionend |-> ss[2]] :
        h \in BOOLEAN, tf \in Timeframes, fd \in FromDates, td \in ToDates,
        ss \in Sessions}

(***************************************************************************)
(* The state machine.                                                      *)
(***************************************************************************)
Self ==
    [hist_data |-> hist_data, hist_loaded |-> hist_loaded,
     live_buffer |-> live_buffer, last_bar_time |-> last_bar_time,
     last_bar |-> last_bar, _idx |-> _idx, lines |-> lines]

SetSelf(s) ==
    /\ hist_data' = s.hist_data
    /\ hist_loaded' = s.hist_loaded
    /\ live_buffer' = s.live_buffer
    /\ last_bar_time' = s.last_bar_time
    /\ last_bar' = s.last_bar
    /\ _idx' = s._idx
    /\ lines' = s.lines

Str(b) == IF b THEN "True" ELSE "False"

Returned(op, r) ==
    [op |-> op, out |-> IF r.exc = NoExc THEN Str(r.out) ELSE "raised", exc |-> r.exc]

\* a call of method op with result r: the attributes, the value and the poll
Call(op, r) ==
    /\ SetSelf(r.self)
    /\ ret' = Returned(op, r)
    /\ poll' = r.poll

\* run_live_trading has not been called
RunIdle ==
    /\ args = [api_key |-> "", symbols |-> <<>>]
    /\ run = [pc |-> "idle", exc |-> NoExc, caught |-> NoExc, feeds |-> 0,
              ran |-> FALSE, disconnects |-> 0, connect |-> ""]

\* the strategy after EmaCrossStrategy.__init__, the broker without orders
StrategyConstructed ==
    /\ order = NoOrder
    /\ orders = <<>>
    /\ position = 0
    /\ crossover = 0
    /\ trend = 0
    /\ bars = 0
    /\ buys_since_close = 0

\* the attributes of a feed no method has changed; the lines hold NaN
FeedFresh ==
    /\ hist_data = None
    /\ hist_loaded = FALSE
    /\ live_buffer = <<>>
    /\ last_bar_time = None
    /\ last_bar = None
    /\ _idx = None
    /\ lines = [datetime |-> NaN, open |-> NaN, high |-> NaN, low |-> NaN,
                close |-> NaN, volume |-> NaN, openinterest |-> NaN]
    /\ poll = NoPoll
    /\ calls = 0
    /\ loads = 0

\* the feed after __init__ (lines 42-68)
FeedConstructed ==
    /\ phase = "constructed"
    /\ ret = [op |-> "__init__", out |-> "None", exc |-> NoExc]
    /\ FeedFresh

\* a feed constructed with any of the configurations, its API connected or not
Init ==
    /\ p \in FeedParams
    /\ p.historical \/ (p.fromdate = [day |-> 0, sec |-> 0] /\ p.todate = None)
    /\ api_connected \in BOOLEAN
    /\ api_connects = TRUE
    /\ FeedConstructed
    /\ StrategyConstructed
    /\ RunIdle

Api == [is_connected |-> api_connected, connects |-> api_connects]

SetApi(api) ==
    /\ api_connected' = api.is_connected
    /\ api_connects' = api.connects

\* feed.start(), its random terms drawn from draws: the API is connected if
\* it is not (RuntimeError when that fails), then the table is loaded and
\* the cursor is set
StartFeed(draws) ==
    /\ phase = "constructed"
    /\ SetApi(ensure_connected(Api).api)
    /\ IF connect_failed(Api)
       THEN /\ phase' = "start_raised"
            /\ ret' = [op |-> "start", out |-> "raised", exc |-> "RuntimeError"]
            /\ UNCHANGED <<hist_data, hist_loaded, live_buffer, last_bar_time,
                           last_bar, _idx, lines>>
       ELSE /\ \E now \in Clock, z \in draws :
                 SetSelf(start(Self, p, now, z))
            /\ phase' = "started"
            /\ ret' = [op |-> "start", out |-> "None", exc |-> NoExc]
    /\ poll' = NoPoll
    /\ UNCHANGED <<p, calls, loads>>
    /\ UNCHANGED strategy_vars
    /\ UNCHANGED run_vars

\* feed.start()
DoStart == StartFeed(RandomTerms)

\* feed.next()
DoNext ==
    /\ phase = "started"
    /\ calls + loads < MaxCalls
    /\ \E now \in Clock, tt \in TimeSamples :
         Call("next", next(Self, p, now, tt))
    /\ calls' = calls + 1
    /\ UNCHANGED <<p, api_connected, api_connects, phase, loads>>
    /\ UNCHANGED strategy_vars
    /\ UNCHANGED run_vars

\* feed.load_next()
DoLoadNext ==
    /\ phase = "started"
    /\ calls + loads < MaxCalls
    /\ \E now \in Clock, tt \in TimeSamples, base_next \in BOOLEAN :
         Call("load_next", load_next(Self, p, now, tt, base_next))
    /\ loads' = loads + 1
    /\ UNCHANGED <<p, api_connected, api_connects, phase, calls>>
    /\ UNCHANGED strategy_vars
    /\ UNCHANGED run_vars

\* feed._load_bar()
DoLoadBar ==
    /\ phase = "started"
    /\ calls + loads < MaxCalls
    /\ \E now \in Clock, tt \in TimeSamples :
         Call("_load_bar", _load_bar(Self, p, now, tt))
    /\ loads' = loads + 1
    /\ UNCHANGED <<p, api_connected, api_connects, phase, calls>>
    /\ UNCHANGED strategy_vars
    /\ UNCHANGED run_vars

\* feed.haslivedata()
DoHasLiveData ==
    /\ phase = "started"
    /\ Call("haslivedata", haslivedata(Self))
    /\ UNCHANGED <<p, api_connected, api_connects, phase, calls, loads>>
    /\ UNCHANGED strategy_vars
    /\ UNCHANGED run_vars

\* the calls a consumer can make on the feed
Next == DoStart \/ DoNext \/ DoLoadNext \/ DoLoadBar \/ DoHasLiveData

Spec == Init /\ [][Next]_vars

(***************************************************************************)
(* EmaCrossStrategy (src/momentum_bot.py) and the broker.  The methods are *)
(* operators on the record st of the strategy's tracked order, the         *)
(* broker's orders and the position.                                       *)
(***************************************************************************)
\* the statuses of bt.Order the broker notifies
Statuses ==
    {"Submitted", "Accepted", "Partial", "Completed", "Canceled", "Expired",
     "Margin", "Rejected"}

\* the order self.buy() or self.sell() creates, of Stake lots
Order(isbuy) == [isbuy |-> isbuy, status |-> "Created", executed |-> 0]

\* self.buy(): the broker's orders with the new buy order
buy(st) == Append(st.orders, Order(TRUE))

\* self.sell(): the broker's orders with the new sell order
sell(st) == Append(st.orders, Order(FALSE))

\* EmaCrossStrategy.next() on a bar whose crossover value is signal
EmaCrossStrategy_next(st, signal) ==
    IF st.order # NoOrder THEN st
    ELSE IF st.position = 0
    THEN IF signal > 0
         THEN [st EXCEPT !.orders = buy(st), !.order = <<Len(st.orders) + 1>>]
         ELSE st
    ELSE IF signal < 0
         THEN [st EXCEPT !.orders = sell(st), !.order = <<Len(st.orders) + 1>>]
         ELSE st

\* notify_order keeping the order tracked when it was refused or cancelled
notify_order_keeps_failed(st, status) ==
    IF status \in {"Submitted", "Accepted", "Canceled", "Margin", "Rejected"}
    THEN st
    ELSE [st EXCEPT !.order = NoOrder]

\* EmaCrossStrategy.notify_order(order) for an order whose status is status
notify_order(st, status) ==
    IF status \in {"Submitted", "Accepted"} THEN st
    ELSE [st EXCEPT !.order = NoOrder]

\* an order the broker still works on
alive(o) == o.status \in {"Created", "Submitted", "Accepted", "Partial"}

\* the broker can move the order o to status next: Submitted, then Accepted,
\* then partial executions of one lot while more than one lot is open; an
\* order that is alive can complete, be cancelled, expire, or be refused
can_notify(o, status) ==
    /\ alive(o)
    /\ status = "Submitted" => o.status = "Created"
    /\ status = "Accepted" => o.status \in {"Created", "Submitted"}
    /\ status = "Partial" => o.executed + 1 < Stake

\* the lots the broker executes when it moves the order o to status
executes(o, status) ==
    CASE status = "Partial" -> 1
      [] status = "Completed" -> Stake - o.executed
      [] OTHER -> 0

\* the broker moves its i-th order to status and updates the position
broker_update(st, i, status) ==
    [st EXCEPT !.orders[i].status = status,
               !.orders[i].executed = @ + executes(st.orders[i], status),
               !.position = IF st.orders[i].isbuy
                            THEN @ + executes(st.orders[i], status)
                            ELSE @ - executes(st.orders[i], status)]

\* the crossover values a bar can show after the last crossing `last`: the
\* averages cross upwards (1) and downwards (-1) in turn
Signals(last) == {sg \in {-1, 0, 1} : sg = 0 \/ sg # last}

Strategy == [order |-> order, orders |-> orders, position |-> position]

SetStrategy(st) ==
    /\ order' = st.order
    /\ orders' = st.orders
    /\ position' = st.position

\* a strategy and a broker at the start of the run; the feed is not used
InitStrategy ==
    /\ p = [historical |-> TRUE, timeframe |-> <<"1", "d">>,
            fromdate |-> [day |-> 0, sec |-> 0], todate |-> None,
            sessionstart |-> NoString, sessionend |-> NoString]
    /\ api_connected = FALSE
    /\ api_connects = TRUE
    /\ FeedConstructed
    /\ StrategyConstructed
    /\ RunIdle

\* a bar: cerebro calls strategy.next()
DoStrategyNext ==
    /\ bars < MaxBars
    /\ \E signal \in Signals(trend) :
         /\ SetStrategy(EmaCrossStrategy_next(Strategy, signal))
         /\ crossover' = signal
         /\ trend' = IF signal # 0 THEN signal ELSE trend
    /\ bars' = bars + 1
    /\ buys_since_close' =
           IF Len(orders') > Len(orders) /\ orders'[Len(orders')].isbuy
           THEN buys_since_close + 1
           ELSE buys_since_close
    /\ UNCHANGED feed_vars
    /\ UNCHANGED run_vars

\* the broker moves an order on and cerebro calls strategy.notify_order(order)
DoNotifyOrder ==
    /\ \E i \in 1..Len(orders), status \in Statuses :
         /\ can_notify(orders[i], status)
         /\ SetStrategy(notify_order(broker_update(Strategy, i, status), status))
    /\ buys_since_close' =
           IF position # 0 /\ position' = 0 THEN 0 ELSE buys_since_close
    /\ UNCHANGED <<crossover, trend, bars>>
    /\ UNCHANGED feed_vars
    /\ UNCHANGED run_vars

NextStrategy == DoStrategyNext \/ DoNotifyOrder

SpecStrategy == InitStrategy /\ [][NextStrategy]_vars

(***************************************************************************)
(* The Historical Loader over date ranges of every kind: start() on feeds  *)
(* configured with a range that holds weekdays, none, or is empty, and     *)
(* with random terms of either sign.                                       *)
(***************************************************************************)
\* timeframe strings: '1d', '30T' and '5m'
LoaderTimeframes == {<<"1", "d">>, <<"3", "0", "T">>, <<"5", "m">>}

\* the days a range can start or end on: Thursday to Sunday, at 00:00
RangeDates == {[day |-> d, sec |-> 0] : d \in 0..MaxDay + 1}

LoaderParams ==
    {[historical |-> TRUE, timeframe |-> tf, fromdate |-> fd, todate |-> td,
      sessionstart |-> NoString, sessionend |-> NoString] :
        tf \in LoaderTimeframes, fd \in RangeDates, td \in RangeDates \cup {None}}

\* draws of np.random.normal(0.01, 0.1), (0, 0.1), (0.05, 0.05) twice, and
\* of np.random.randint(1000, 10000), in units of 0.001: above and below 0
LoaderTerms ==
    {[dclose |-> 110, dopen |-> 50, dhigh |-> 80, dlow |-> 60, volume |-> 5000000],
     [dclose |-> -90, dopen |-> -50, dhigh |-> -20, dlow |-> -10, volume |-> 1000000]}

InitLoader ==
    /\ p \in LoaderParams
    /\ api_connected = TRUE
    /\ api_connects = TRUE
    /\ FeedConstructed
    /\ StrategyConstructed
    /\ RunIdle

\* feed.start(), with the loader's terms drawn from LoaderTerms
DoLoad == StartFeed(LoaderTerms)

NextLoader == DoLoad \/ DoNext

SpecLoader == InitLoader /\ [][NextLoader]_vars

(***************************************************************************)
(* Construction, start() and run_live_trading (src/momentum_bot.py).  A    *)
(* caller either constructs a feed itself and uses it, or calls            *)
(* run_live_trading.                                                       *)
(***************************************************************************)
\* the params given to TradeLockerFeed(...): with or without an API
\* instance, with or without a symbol
SetupParams ==
    {[historical |-> h, timeframe |-> <<"1", "d">>,
      fromdate |-> [day |-> 0, sec |-> 0], todate |-> None,
      sessionstart |-> NoString, sessionend |-> NoString,
      api |-> a, symbol |-> sy] :
        h \in BOOLEAN, a \in {None, [obj |-> "api"]},
        sy \in {None, [str |-> "AAPL"]}}

\* args: --api-key given or not, --symbols with 1..MaxSymbols symbols
RunArgs ==
    {[api_key |-> k, symbols |-> SubSeq(<<"AAPL", "MSFT", "GOOG">>, 1, n)] :
        k \in {"", "key"}, n \in 1..MaxSymbols}

\* what can be raised inside the try block: an error, or the interrupt the
\* interpreter raises when the user presses Ctrl-C
Raised == {"Exception", "KeyboardInterrupt"}

\* whether `except Exception` catches e: KeyboardInterrupt derives from
\* BaseException only
IsException(e) == e # "KeyboardInterrupt"

\* run_live_trading, lines 277-281, with the value connect() returned
after_connect(r, connected) ==
    IF ~connected
    THEN [r EXCEPT !.pc = "returned", !.connect = "False"]
    ELSE [r EXCEPT !.pc = "try", !.connect = "True"]

\* the feed run_live_trading constructs for symbol (lines 305-313)
feed_params(symbol) ==
    [historical |-> TRUE, timeframe |-> <<"1", "d">>,
     sessionstart |-> SessionStart, sessionend |-> SessionEnd,
     api |-> [obj |-> "trade_api"], symbol |-> [str |-> symbol]]

\* e is raised in the try block: `except Exception` takes it if it derives
\* from Exception, otherwise the finally block runs with e in flight
raise_in_try(r, e) ==
    IF IsException(e)
    THEN [r EXCEPT !.pc = "except", !.exc = e]
    ELSE [r EXCEPT !.pc = "finally", !.exc = e]

\* the except block (lines 336-337): the exception is printed and dropped
except_block(r) == [r EXCEPT !.pc = "finally", !.caught = r.exc, !.exc = NoExc]

\* the finally block (lines 339-342) calls disconnect(); then the function
\* returns, or the exception in flight goes on to the caller
finally_block(r) ==
    [r EXCEPT !.disconnects = @ + 1,
              !.pc = IF r.exc = NoExc THEN "returned" ELSE "propagated"]

InitSetup ==
    /\ p \in SetupParams
    /\ api_connected \in BOOLEAN
    /\ api_connects \in BOOLEAN
    /\ phase = "new"
    /\ ret = [op |-> "", out |-> "None", exc |-> NoExc]
    /\ FeedFresh
    /\ StrategyConstructed
    /\ args \in RunArgs
    /\ run = [pc |-> "idle", exc |-> NoExc, caught |-> NoExc, feeds |-> 0,
              ran |-> FALSE, disconnects |-> 0, connect |-> ""]

\* TradeLockerFeed(**p)
DoInit ==
    /\ phase = "new"
    /\ run.pc = "idle"
    /\ IF __init__(p).exc # NoExc
       THEN /\ phase' = "init_raised"
            /\ ret' = [op |-> "__init__", out |-> "raised", exc |-> __init__(p).exc]
            /\ UNCHANGED <<hist_data, hist_loaded, live_buffer, last_bar_time,
                           last_bar, _idx, lines>>
       ELSE /\ phase' = "constructed"
            /\ ret' = [op |-> "__init__", out |-> "None", exc |-> NoExc]
            /\ SetSelf(__init__(p).self)
    /\ UNCHANGED <<p, api_connected, api_connects, poll, calls, loads>>
    /\ UNCHANGED strategy_vars
    /\ UNCHANGED run_vars

\* run_live_trading(args), lines 267-279: the API key is required, the API
\* is created and connected
RunConnect ==
    /\ phase = "new"
    /\ run.pc = "idle"
    /\ IF args.api_key = ""
       THEN /\ run' = [run EXCEPT !.pc = "returned"]
            /\ UNCHANGED <<api_connected, api_connects>>
       ELSE /\ run' = after_connect(run, connect(TradeLockerAPI(args.api_key)).out)
            /\ SetApi(connect(TradeLockerAPI(args.api_key)).api)
    /\ UNCHANGED <<p, phase, hist_data, hist_loaded, live_buffer, last_bar_time,
                   last_bar, _idx, lines, ret, poll, calls, loads, args>>
    /\ UNCHANGED strategy_vars

\* lines 283-296: cerebro, the strategy, the symbols, the session times
RunSetup ==
    /\ run.pc = "try"
    /\ run' = [run EXCEPT !.pc = "feeds"]
    /\ UNCHANGED <<feed_vars, strategy_vars, args>>

\* lines 299-315: one turn of the loop constructs the feed of one symbol
RunAddFeed ==
    /\ run.pc = "feeds"
    /\ run.feeds < Len(args.symbols)
    /\ run' = IF __init__(feed_params(args.symbols[run.feeds + 1])).exc # NoExc
              THEN raise_in_try(run, "Exception")
              ELSE [run EXCEPT !.feeds = @ + 1]
    /\ UNCHANGED <<feed_vars, strategy_vars, args>>

\* lines 318-331: the broker's cash and commission, the sizer, the analyzers
RunBroker ==
    /\ run.pc = "feeds"
    /\ run.feeds = Len(args.symbols)
    /\ run' = [run EXCEPT !.pc = "run"]
    /\ UNCHANGED <<feed_vars, strategy_vars, args>>

\* line 334: cerebro.run() returns, or raises
RunCerebro ==
    /\ run.pc = "run"
    /\ \/ run' = [run EXCEPT !.ran = TRUE, !.pc = "finally"]
       \/ \E e \in Raised : run' = raise_in_try([run EXCEPT !.ran = TRUE], e)
    /\ UNCHANGED <<feed_vars, strategy_vars, args>>

\* a statement of lines 283-331 raises
RunRaise ==
    /\ run.pc \in {"try", "feeds", "run"}
    /\ \E e \in Raised : run' = raise_in_try(run, e)
    /\ UNCHANGED <<feed_vars, strategy_vars, args>>

\* lines 336-337
RunExcept ==
    /\ run.pc = "except"
    /\ run' = except_block(run)
    /\ UNCHANGED <<feed_vars, strategy_vars, args>>

\* lines 339-342
RunFinally ==
    /\ run.pc = "finally"
    /\ run' = finally_block(run)
    /\ SetApi(disconnect(Api))
    /\ UNCHANGED <<p, phase, hist_data, hist_loaded, live_buffer, last_bar_time,
                   last_bar, _idx, lines, ret, poll, calls, loads, args>>
    /\ UNCHANGED strategy_vars

NextSetup ==
    \/ DoInit \/ DoStart \/ DoNext
    \/ RunConnect \/ RunSetup \/ RunAddFeed \/ RunBroker \/ RunCerebro
    \/ RunRaise \/ RunExcept \/ RunFinally

SpecSetup == InitSetup /\ [][NextSetup]_vars

(***************************************************************************)
(* Properties.                                                             *)
(***************************************************************************)
Started == phase = "started"

\* a Historical Table was loaded and holds at least one row
HasRows == Started /\ p.historical /\ len(hist_data) >= 1

\* the last call was of one of the loading methods
Loaded == ret.op \in {"load_next", "_load_bar"}

\* C1: after start() with a table of N >= 1 rows, while the Live Poller has
\* produced no bar and only next() has been called, the k-th call of next()
\* returns true with the cursor at k - 1 for k <= N, and false for k > N.
C1_AdvanceWalksTable ==
    (HasRows /\ last_bar = None /\ loads = 0 /\ ret.op = "next")
        => IF calls <= len(hist_data)
           THEN ret.out = "True" /\ _idx = calls - 1
           ELSE ret.out = "False"

\* C2: with a non-empty table, next() runs the Live Poller only once the
\* cursor has passed every historical row, and the current bar is a live
\* bar only then.
C2_HistoryBeforeLive ==
    HasRows =>
        /\ (ret.op = "next" /\ poll.polled) => _idx >= len(hist_data)
        /\ (lines.datetime # NaN
               /\ \A i \in 1..len(hist_data) : lines # write_lines(hist_data.rows[i]))
               => _idx >= len(hist_data)

\* C3: the cursor never decreases, a cursor past the table stays past it,
\* and from then on a bar that becomes current comes from the Live Buffer or
\* from the poll of that call, never from the table.
C3_NoReturnToHistorical ==
    [][(Started /\ p.historical) =>
          /\ _idx' >= _idx
          /\ _idx >= len(hist_data) =>
                /\ _idx' >= len(hist_data')
                /\ lines' # lines =>
                      \/ live_buffer # <<>> /\ lines' = write_lines(Head(live_buffer))
                      \/ poll'.emitted # None /\ lines' = write_lines(poll'.emitted)]_vars

\* C3 witness: the cursor is past the (empty) table and a later call has
\* made a live bar current
C3_Witness ==
    /\ Started /\ p.historical /\ _idx >= len(hist_data)
    /\ calls >= 1 /\ Loaded /\ ret.out = "True"

\* C4: every bar written into the current-bar record has a timestamp greater
\* than the one it replaces.
C4_WrittenTimestampsIncrease ==
    [][(Started /\ ret'.op \in {"load_next", "_load_bar"} /\ ret'.out = "True"
           /\ lines.datetime # NaN)
          => lines'.datetime[1] > lines.datetime[1]]_vars

\* C4 witness: two bars were written one after the other (only loads were
\* called, and the current bar is not the first live bar)
C4_Witness ==
    /\ Started /\ calls = 0 /\ Loaded /\ ret.out = "True"
    /\ lines.datetime # NaN /\ lines.open # <<99950>>

\* C5: when next() has returned true the current-bar record holds, in all
\* seven fields, the bar that call selected: the table's row at the cursor
\* while the cursor is in the table, else the bar the call's poll produced.
C5_TrueAdvancePopulates ==
    (Started /\ ret.op = "next" /\ ret.out = "True")
        => /\ \A f \in DOMAIN lines : lines[f] # NaN
           /\ lines = write_lines(IF _idx >= 0 /\ _idx < len(hist_data)
                                  THEN hist_data.rows[_idx + 1]
                                  ELSE poll.emitted)

\* C6: a call of next(), load_next() or _load_bar() that reports false
\* leaves all seven fields of the current-bar record as they were.
C6_FalseKeepsCurrentBar ==
    [][(Started /\ ret'.op \in {"next", "load_next", "_load_bar"}
           /\ ret'.out = "False")
          => lines' = lines]_vars

\* C6 witness: a call reported false while a bar was current
C6_Witness ==
    /\ Started /\ ret.op \in {"next", "load_next", "_load_bar"}
    /\ ret.out = "False" /\ lines.datetime # NaN

\* C7: a bar the Live Poller emits has a timestamp greater than the
\* last-known timestamp, which then becomes that bar's timestamp.
C7_LiveBarAfterLastKnown ==
    [][(Started /\ ret'.op \in {"next", "load_next", "_load_bar"}
           /\ poll'.emitted # None)
          => /\ last_bar_time # None => DtLT(last_bar_time, poll'.emitted.datetime)
             /\ last_bar_time' = poll'.emitted.datetime]_vars

\* C7 witness: the poller emitted a bar when a timestamp was already known
\* from an earlier live bar
C7_Witness ==
    /\ Started /\ poll.emitted # None /\ poll.emitted.open # 99950

\* C8: with a session window '09:30' to '16:00' configured, the poller emits
\* a bar only from a clock reading whose time of day is in 09:30:00..16:00:00.
C8_EmitsOnlyInSession ==
    (poll.emitted # None /\ p.sessionstart # NoString /\ p.sessionend # NoString)
        => /\ 9 * 3600 + 30 * 60 <= poll.now.sec
           /\ poll.now.sec <= 16 * 3600

\* C8 witness: a bar emitted at 16:00:00, the inclusive end of the window
C8_Witness ==
    /\ poll.emitted # None /\ p.sessionstart # NoString /\ p.sessionend # NoString
    /\ poll.now.sec = 16 * 3600

\* C9: after start(), next() returns true or false and raises nothing.
C9_AdvanceNeverRaises ==
    (Started /\ ret.op = "next") => (ret.exc = NoExc /\ ret.out \in {"True", "False"})

\* C10: with the cursor past the table, next() runs the Live Poller and
\* returns true exactly when it produced a bar; when it produced none, what
\* next() returns differs from false, the end-of-feed result.
C10_NoDataDistinctFromEnd ==
    (Started /\ p.historical /\ _idx >= len(hist_data) /\ ret.op = "next")
        => /\ poll.polled
           /\ (ret.out = "True") <=> (poll.emitted # None)
           /\ poll.emitted = None => ret.out # "False"

\* an order that has not reached Completed, Canceled, Margin or Rejected
pending(o) == o.status \notin {"Completed", "Canceled", "Margin", "Rejected"}

\* C11: from the moment next() submits an order until that order is
\* Completed, Canceled, Margin or Rejected, next() submits no other order:
\* at any time at most one submitted order is short of these four statuses.
C11_OnePendingOrder ==
    Cardinality({i \in 1..Len(orders) : pending(orders[i])}) <= 1

\* C12: after the buy order of a golden cross, next() issues no further buy
\* order until a position has been closed: at most one buy order has been
\* issued since the last time the position went back to zero.
C12_OneBuyUntilClosed ==
    buys_since_close <= 1

\* C13: constructing a feed without an API instance or without a symbol
\* raises ValueError, and nothing is then started or advanced (the last
\* call stays the failed construction, the cursor and the table stay
\* unset); constructing with both raises nothing.
C13_ConstructionNeedsApiAndSymbol ==
    /\ (p.api = None \/ p.symbol = None) =>
          /\ phase \in {"new", "init_raised"}
          /\ ret.op \in {"", "__init__"}
          /\ hist_data = None /\ ~hist_loaded /\ _idx = None /\ calls = 0
    /\ ret.op = "__init__" =>
          /\ (p.api = None \/ p.symbol = None) <=> ret.exc = "ValueError"
          /\ (p.api # None /\ p.symbol # None) <=> (ret.exc = NoExc /\ phase = "constructed")
    /\ phase = "init_raised" => (ret.op = "__init__" /\ ret.exc = "ValueError")

\* C13 witness: a construction with an API instance and no symbol raised
C13_Witness ==
    phase = "init_raised" /\ p.api # None /\ p.symbol = None

\* C14: when the API is not connected and connect() returns false, start()
\* raises RuntimeError with no table loaded and no cursor set, and nothing
\* is advanced; run_live_trading, when connect() returns false, returns
\* with no feed created and cerebro.run() not called.
C14_ConnectFailureAborts ==
    /\ (ret.op = "start" /\ ~api_connected /\ ~api_connects) =>
          /\ ret.exc = "RuntimeError" /\ phase = "start_raised"
          /\ hist_data = None /\ ~hist_loaded /\ _idx = None /\ calls = 0
    /\ run.connect = "False" =>
          run.pc = "returned" /\ run.feeds = 0 /\ ~run.ran
    /\ run.pc = "idle" =>
          /\ after_connect(run, FALSE).pc = "returned"
          /\ after_connect(run, FALSE).feeds = 0
          /\ ~after_connect(run, FALSE).ran

\* C14 witness: start() raised on an API that was not connected and whose
\* connect() returned false
C14_Witness ==
    /\ phase = "start_raised" /\ ret.op = "start" /\ ret.exc = "RuntimeError"
    /\ ~api_connected /\ ~api_connects

\* run_live_trading has ended: it returned, or an exception left it
Ended == run.pc \in {"returned", "propagated"}

\* C15 as stated: once connect() has succeeded, run_live_trading ends with
\* disconnect() called and the API not connected, and whatever was raised
\* does not reach the caller.
C15_DisconnectsAndNothingPropagates ==
    (run.connect = "True" /\ Ended) =>
        /\ run.disconnects >= 1
        /\ ~api_connected
        /\ run.pc = "returned"

\* C15, amended: once connect() has succeeded, run_live_trading ends only
\* after exactly one call of disconnect() and with the API not connected;
\* an exception deriving from Exception is caught and the function returns;
\* one that does not (KeyboardInterrupt) reaches the caller, after the
\* disconnect.
C15_DisconnectsOnEveryExit ==
    /\ (run.connect = "True" /\ Ended) =>
          /\ run.disconnects = 1
          /\ ~api_connected
          /\ run.pc = "propagated" <=> (run.exc # NoExc /\ ~IsException(run.exc))
          /\ run.caught # NoExc => (IsException(run.caught) /\ run.pc = "returned")
    /\ (run.connect = "True" /\ ~Ended) =>
          (run.disconnects = 0 /\ api_connected)

\* C15 witness: an exception was raised after cerebro.run() was called, it
\* was caught, and the function returned after the disconnect
C15_Witness ==
    /\ run.connect = "True" /\ run.pc = "returned" /\ run.ran
    /\ run.caught # NoExc /\ run.disconnects = 1 /\ ~api_connected

\* the timestamps of the Historical Table's rows
Timestamps == [i \in 1..len(hist_data) |-> hist_data.rows[i].datetime]

\* a daily timeframe: '1d'
is_daily(tf) == tf[Len(tf)] = "d"

\* the interval, in seconds, of an intraday timeframe: '5m' and '30T' are 5
\* and 30 minutes, '1h' is one hour
interval(tf) ==
    ParseInt(SubSeq(tf, 1, Len(tf) - 1)) * (IF tf[Len(tf)] = "h" THEN 3600 ELSE 60)

\* the Monday-Friday day that follows the day of dt
next_weekday(dt) == IF weekday(dt) = 4 THEN dt.day + 3 ELSE dt.day + 1

NoWeekdayInRange ==
    /\ p.todate # None
    /\ \A d \in p.fromdate.day..p.todate.day : weekday([day |-> d, sec |-> 0]) >= 5

\* C17: for a range that is empty or holds no weekday, start() raises
\* nothing and leaves an empty table, hist_loaded true and the last-known
\* timestamp unset; the first next() after start() then runs the Live
\* Poller.  The same holds whenever the table loaded is empty.
C17_EmptyRangeLoadsNothing ==
    /\ (Started /\ NoWeekdayInRange) => hist_data = DataFrame(<<>>)
    /\ (Started /\ hist_data = DataFrame(<<>>)) =>
          /\ hist_loaded
          /\ calls = 0 => (ret.exc = NoExc /\ last_bar_time = None /\ _idx = -1)
          /\ calls = 1 =>
                /\ ret.op = "next" /\ ret.exc = NoExc
                /\ poll.polled
                /\ _idx = 0
                /\ (ret.out = "True") <=> (poll.emitted # None)

\* C17 witness: the range was Saturday to Sunday, and the first next()
\* after start() polled
C17_Witness ==
    /\ Started /\ NoWeekdayInRange /\ p.fromdate.day < p.todate.day
    /\ calls = 1 /\ poll.polled /\ hist_data = DataFrame(<<>>)

\* C18: every row of the Historical Table has high >= max(open, close) and
\* low <= min(open, close).
C18_HighLowBracketOpenClose ==
    (Started /\ hist_loaded) =>
        \A i \in 1..len(hist_data) :
            /\ hist_data.rows[i].high
                   >= Max(hist_data.rows[i].open, hist_data.rows[i].close)
            /\ hist_data.rows[i].low
                   <= Min(hist_data.rows[i].open, hist_data.rows[i].close)

\* C19: after start() has loaded a table with rows, the last-known
\* timestamp is the timestamp of the table's last row until a live bar is
\* fetched, and every live bar (the one a call's poll emitted, the last bar
\* fetched, the bars in the Live Buffer) is later than every row.
C19_LiveBarsAfterHistory ==
    HasRows =>
        /\ last_bar = None =>
              last_bar_time = hist_data.rows[len(hist_data)].datetime
        /\ \A i \in 1..len(hist_data) :
              /\ poll.emitted # None =>
                    DtLT(hist_data.rows[i].datetime, poll.emitted.datetime)
              /\ last_bar # None =>
                    DtLT(hist_data.rows[i].datetime, last_bar.datetime)
              /\ \A j \in 1..Len(live_buffer) :
                    DtLT(hist_data.rows[i].datetime, live_buffer[j].datetime)

\* C19 witness: a live bar was emitted after a table with rows was loaded
C19_Witness ==
    HasRows /\ poll.emitted # None /\ last_bar # None

\* C20: a poll that produces no bar, from any clock reading, returns the
\* feed as it was (last-known timestamp, last bar, Live Buffer, cursor), so
\* that polling again from the same reading gives the same result; and no
\* bar is produced exactly when the session is closed, the day is a
\* Saturday or Sunday, or the candidate timestamp is not greater than the
\* last-known timestamp.
C20_NoBarPollIsNoOp ==
    Started =>
        \A now \in Clock, tt \in TimeSamples :
            LET fetched == _fetch_live_bar(Self, p, now, tt)
                loaded == queue_bar(fetched)
            IN  /\ fetched.out = None =>
                      /\ fetched.self = Self
                      /\ ~loaded.out
                      /\ loaded.self = Self
                      /\ _load_next_live_bar(loaded.self, p, now, tt) = loaded
                /\ (fetched.out = None) <=>
                      \/ ~is_trading_hours(p, now)
                      \/ weekday(now) >= 5
                      \/ /\ last_bar_time # None
                         /\ ~DtLT(last_bar_time, live_bar_time(p, now))

\* C20 witness: a poll produced no bar when a live bar had been fetched
\* before, and the call reported false
C20_Witness ==
    /\ Started /\ poll.polled /\ poll.emitted = None
    /\ last_bar # None /\ ret.op = "_load_bar" /\ ret.out = "False"

\* the step notifies the tracked order as Canceled, Margin or Rejected
TrackedOrderFails ==
    /\ order # NoOrder
    /\ Len(orders') = Len(orders)
    /\ orders[order[1]].status \notin {"Canceled", "Margin", "Rejected"}
    /\ orders'[order[1]].status \in {"Canceled", "Margin", "Rejected"}

\* C21: a Canceled, Margin or Rejected notification for the tracked order
\* clears the tracking and submits nothing; an order is submitted only by
\* next() on a bar whose crossover is > 0 with no position (a buy) or < 0
\* with a position (a sell), and is then the tracked order.
C21_FailedOrderClearedNoRetry ==
    [][/\ TrackedOrderFails => (order' = NoOrder /\ bars' = bars)
       /\ Len(orders') > Len(orders) =>
             /\ Len(orders') = Len(orders) + 1
             /\ bars' = bars + 1
             /\ order = NoOrder /\ order' = <<Len(orders')>>
             /\ \/ position = 0 /\ crossover' > 0 /\ orders'[Len(orders')].isbuy
                \/ position # 0 /\ crossover' < 0 /\ ~orders'[Len(orders')].isbuy]_vars

\* C21 witness: the first order was refused or cancelled with nothing
\* executed, and a later bar's next() has submitted another order
C21_Witness ==
    /\ Len(orders) = 2 /\ order = <<2>>
    /\ orders[1].status \in {"Canceled", "Margin", "Rejected"}
    /\ orders[1].executed = 0

\* new is old with at most one bar taken from its front and at most one bar
\* added at its back
FifoStep(old, new) ==
    \E k \in {0, 1}, a \in {0, 1} :
        /\ k <= Len(old)
        /\ Len(new) = Len(old) - k + a
        /\ \A i \in 1..(Len(old) - k) : new[i] = old[i + k]

\* the timestamps of a buffer increase strictly from front to back
Increasing(buffer) ==
    \A i \in 1..Len(buffer), j \in 1..Len(buffer) :
        i < j => DtLT(buffer[i].datetime, buffer[j].datetime)

\* C22: the Live Buffer is a FIFO. Every next(), load_next() or _load_bar()
\* adds at most one bar at the back and takes bars from the front only, and
\* the buffered timestamps stay strictly increasing. The buffer is empty
\* after start(); a next() on an empty buffer leaves at most one bar, and
\* none unless it returned True; a _load_bar() following a True next() with
\* one bar pending empties the buffer: so with each next() followed, when it
\* returned True, by one _load_bar(), at most one bar is ever pending.
C22_LiveBufferFifo ==
    [][/\ phase' = "started" => Increasing(live_buffer')
       /\ (phase = "constructed" /\ phase' = "started") => live_buffer' = <<>>
       /\ phase = "started" =>
             /\ FifoStep(live_buffer, live_buffer')
             /\ (calls' = calls + 1 /\ live_buffer = <<>>) =>
                   /\ Len(live_buffer') <= 1
                   /\ ret'.out # "True" => live_buffer' = <<>>
                   /\ ret'.out = "True" => Len(live_buffer') = 1
             /\ (/\ ret.op = "next" /\ ret.out = "True"
                 /\ Len(live_buffer) <= 1
                 /\ ret'.op = "_load_bar" /\ loads' = loads + 1) =>
                   /\ live_buffer' = <<>>
                   /\ ret'.out = "True"]_vars

\* C22 witness: one next() returned True and queued a bar, and the
\* _load_bar() after it took that bar from the buffer without polling
C22_Witness ==
    /\ phase = "started"
    /\ calls = 1 /\ loads = 1
    /\ ret.op = "_load_bar" /\ ret.out = "True"
    /\ poll = NoPoll
    /\ live_buffer = <<>>
    /\ last_bar # None
    /\ lines.datetime = <<date2num(last_bar.datetime)>>

\* the next call of next() would run the Live Poller: it takes neither the
\* historical branch of next() nor raises
NextDelegates ==
    hist_data # None /\ ~(_idx >= 0 /\ _idx < len(hist_data) - 1)

\* the Historical Table holds rows after the cursor
RowsRemain == hist_data # None /\ _idx + 1 < len(hist_data)

\* C23: after start(), haslivedata() returns True when the next call of
\* next() would run the Live Poller or a bar is pending in the Live Buffer,
\* and False while rows of the Historical Table remain and the buffer is
\* empty.
C23_HasLiveDataAgreesWithMode ==
    (Started /\ ret.op = "haslivedata") =>
        /\ (NextDelegates \/ live_buffer # <<>>) => ret.out = "True"
        /\ (RowsRemain /\ live_buffer = <<>>) => ret.out = "False"

====
